---- MODULE Spec2Model ----
(***************************************************************************)
(* Model of game-agent: the push-to-talk command loop of                   *)
(* src/src/game_agent/__init__.py (main, on_press, on_release) and the     *)
(* agent graph of src/src/game_agent/agent.py (GameAgent.run, _call_model, *)
(* _should_continue, _process_screenshot).                                 *)
(*                                                                         *)
(* Four specifications share the variables:                                *)
(*   Spec        main() from start-up through the interactive loop, with   *)
(*               the keyboard listener thread interleaved step by step;    *)
(*   SpecGate    the amplitude check of main() applied to bounded          *)
(*               16-bit waveforms;                                         *)
(*   SpecBridge  _process_screenshot applied to bounded transcripts;       *)
(*   SpecGraph   one GameAgent.run, node by node.                          *)
(***************************************************************************)
EXTENDS Integers, Sequences, FiniteSets, TLC

VARIABLES
    env,             \* process environment: OPENROUTER_API_KEY, ENABLE_TTS, ENABLE_STT, PTT_KEY, PortAudio installed
    pc,              \* position of the main thread inside main()
    exit_code,       \* << >>, or << n >> once sys.exit(n) was called
    agent,           \* TRUE once GameAgent(api_key=...) was constructed
    tts,             \* TRUE iff tts is a TextToSpeech object (not None)
    stt,             \* "None", or the kind of object STT() returned
    enable_stt,      \* local enable_stt of main()
    stt_exc,         \* ghost: what the STT initialisation raised
    warned,          \* ghost: the STT warning of lines 50-54 was printed
    listener,        \* "None" | "running" | "stopped"
    is_ptt_pressed,  \* is_ptt_pressed["value"]
    audio_chunks,    \* the shared list audio_chunks
    audio_data,      \* np.concatenate(audio_chunks, axis=0) of the current turn
    user_input,      \* transcribed text of the current turn
    lpc,             \* position of the listener thread inside a callback
    presses,         \* ghost: number of presses that set is_ptt_pressed so far
    recHold,         \* ghost: the press (1..presses) under which the current recording started
    recEnd,          \* ghost: how the recording loop was left: "release" (of the press it
                     \* started under), "later_release" (of a later press), "error", "none"
    recorded,        \* ghost: the chunks sd.rec returned in the current recording, in order
    fail,            \* ghost: the failure of the current turn, "none" if none
    inFlight,        \* ghost: number of agent.run calls that have not returned
    remote,          \* ghost: the remote services called so far
    called,          \* ghost: the remote services called in the current turn
    interrupted,     \* ghost: a KeyboardInterrupt reached the handler of line 209 or left main()
    sr_bound,        \* the local sr of main() is bound (line 138 has run)
    crashed_at,      \* ghost: the position at which an exception left main(), "none" if none
    messages,        \* AgentState["messages"], the transcript
    node,            \* position in the agent graph
    bridge_result,   \* outcome of the last _process_screenshot call, or NotRun
    llm_input,       \* ghost: the list the last llm_with_tools.invoke received
    visited          \* ghost: the graph nodes run so far in this run, in order

vars == << env, pc, exit_code, agent, tts, stt, enable_stt, stt_exc, warned,
           listener, is_ptt_pressed, audio_chunks, audio_data, user_input, lpc,
           presses, recHold, recEnd, recorded, fail, inFlight, remote, called,
           interrupted, sr_bound, crashed_at, messages, node, bridge_result,
           llm_input, visited >>

mainVars   == << env, pc, exit_code, agent, tts, stt, enable_stt, stt_exc, warned,
                 listener, is_ptt_pressed, audio_chunks, audio_data, user_input,
                 lpc, presses, recHold, recEnd, recorded, fail, inFlight, remote, called,
                 interrupted, sr_bound, crashed_at >>
bridgeVars == << messages, node, bridge_result, llm_input, visited >>

-----------------------------------------------------------------------------
(* Bounds of the model *)

MaxPresses == 2        \* presses of the push-to-talk key in one behaviour
MaxChunks == 2         \* chunks sd.rec returns in one recording
GateMaxChunks == 3     \* chunks of a waveform handed to the gate in SpecGate
MaxRounds == 2         \* model responses with tool calls in one run
MaxMsgs == 3           \* messages of a transcript handed to the bridge in SpecBridge

(* Program constants *)

THRESHOLD == 100       \* if max_val < 100
INT16_MIN == -32768    \* dtype=np.int16
EXIT_FAILURE == 1      \* sys.exit(1)

-----------------------------------------------------------------------------
(* The amplitude gate: np.max(np.abs(audio_data)) < 100 on int16 samples *)

\* np.abs on an int16 array: two's complement negation, so abs(-32768) = -32768
Abs16(x) == IF x = INT16_MIN THEN INT16_MIN ELSE IF x < 0 THEN -x ELSE x

RECURSIVE Concatenate(_)
\* np.concatenate(audio_chunks, axis=0)
Concatenate(chunks) ==
    IF chunks = << >> THEN << >> ELSE Head(chunks) \o Concatenate(Tail(chunks))

RECURSIVE NpMax(_)
\* np.max over a non-empty array
NpMax(a) ==
    IF Len(a) = 1 THEN a[1]
    ELSE LET m == NpMax(Tail(a)) IN IF a[1] > m THEN a[1] ELSE m

\* max_val = np.max(np.abs(audio_data))
MaxVal(a) == NpMax([i \in 1..Len(a) |-> Abs16(a[i])])

\* the comparison of line 144 turned round
GateRejects_Flipped(a) == MaxVal(a) > THRESHOLD
\* if max_val < 100: ... continue
GateRejects(a) == MaxVal(a) < THRESHOLD

\* the true peak |x| of a waveform, in unbounded arithmetic
TrueAbs(x) == IF x < 0 THEN -x ELSE x
TruePeak(a) == NpMax([i \in 1..Len(a) |-> TrueAbs(a[i])])

-----------------------------------------------------------------------------
(* Transcript messages and the screenshot bridge *)

NameAbsent == "<no name attribute>"
NameNone == "<None>"
NoImage == "<no base64 key>"
Images == {"imgA", "imgB"}

\* str.lower() on the strings of the model
Lower(s) ==
    CASE s = "Take_Region_Screenshot" -> "take_region_screenshot"
      [] s = "Exit" -> "exit"
      [] s = "True" -> "true"
      [] s = "X" -> "x"
      [] OTHER -> s

\* "screenshot" in s, for the (lower-cased or not) names of the model
ContainsScreenshot(s) == s \in {"take_screenshot", "take_region_screenshot"}

\* Message content.  form "str": content is a str whose text is the JSON
\* encoding of a value of kind `kind` ("invalid": not JSON at all);
\* form "obj": content is already a Python object of kind `kind`.
Content(form, kind, b64) == [form |-> form, kind |-> kind, base64 |-> b64]
Msg(type, name, content) ==
    [type |-> type, name |-> name, content |-> content, tool_calls |-> << >>]

\* HumanMessage(content=[{"type": "text", ...}, {"type": "image_url", ...}])
ImageMessage(b64) == Msg("human", NameNone, Content("obj", "image_parts", b64))
IsImageMessage(m) == m.type = "human" /\ m.content.kind = "image_parts"

\* outcome of one call: the returned {"messages": new}, or the exception raised
BridgeOk(new) == [status |-> "ok", exc |-> "none", new |-> new]
BridgeRaise(exc) == [status |-> "raise", exc |-> exc, new |-> << >>]
NotRun == [status |-> "not run", exc |-> "none", new |-> << >>]

\* hasattr(msg, "name") and "screenshot" in msg.name.lower(); "raise" when
\* msg.name is None (None has no attribute lower)
NameTest(m) ==
    IF m.name = NameAbsent THEN "skip"
    ELSE IF m.name = NameNone THEN "raise"
    ELSE IF ContainsScreenshot(Lower(m.name)) THEN "match" ELSE "skip"

\* the try block of lines 172-208 on one matching message:
\*   "image"  base64 found, message appended, break
\*   "next"   JSONDecodeError caught, or no "base64" key: the loop goes on
\*   "raise"  result.keys() on a value that is not a mapping (AttributeError)
ParsePayload(m) ==
    IF m.content.form = "str" /\ m.content.kind = "invalid" THEN "next"
    ELSE IF m.content.kind # "dict" THEN "raise"
    ELSE IF m.content.base64 # NoImage THEN "image" ELSE "next"

RECURSIVE ScanReversed(_, _)
\* for msg in reversed(messages): ... ; i is the index of msg
ScanReversed(msgs, i) ==
    IF i = 0 THEN BridgeOk(<< >>)
    ELSE LET m == msgs[i]
             t == NameTest(m)
         IN  IF t = "raise" THEN BridgeRaise("AttributeError")
             ELSE IF t = "skip" THEN ScanReversed(msgs, i - 1)
             ELSE LET p == ParsePayload(m)
                  IN  IF p = "raise" THEN BridgeRaise("AttributeError")
                      ELSE IF p = "image"
                           THEN BridgeOk(<< ImageMessage(m.content.base64) >>)
                           ELSE ScanReversed(msgs, i - 1)

\* GameAgent._process_screenshot(state)
ProcessScreenshotResult(msgs) == ScanReversed(msgs, Len(msgs))

-----------------------------------------------------------------------------
(* Environment of main() *)

Unset == "<unset>"
ApiKeys == {Unset, "", "sk-key"}
\* values of the ENABLE_TTS and ENABLE_STT environment variables
EnvFlags == {Unset, "True", "false"}
\* the environments of the model: every combination of the flags with the
\* default key, and one environment that names another key in upper case
Envs ==
    [api_key : ApiKeys, ENABLE_TTS : EnvFlags, ENABLE_STT : EnvFlags,
     PTT_KEY : {Unset}, portaudio : BOOLEAN]
    \cup {[api_key |-> "sk-key", ENABLE_TTS |-> "false", ENABLE_STT |-> "True",
           PTT_KEY |-> "X", portaudio |-> TRUE]}

\* os.getenv(name, default)
Getenv(v, default) == IF v = Unset THEN default ELSE v

\* the check written as `api_key is None`
ApiKeyMissing_NoneOnly(k) == k = Unset

\* if not api_key: (None and the empty string are both falsy)
ApiKeyMissing(k) == k = Unset \/ k = ""

\* the texts recognize_google can return in the model
Texts == {"Exit", "tts off", "hello", " "}

\* a local variable of main() that is not assigned yet
Unbound == "<unbound>"

\* str.strip() on the texts of the model
Strip(s) == IF s = " " THEN "" ELSE s

\* the chunks sd.rec can deliver in the model: a silent one and a loud one
\* (an array of int16 samples each)
RecChunks == {<< 0 >>, << 0, THRESHOLD >>}

\* positions of the main thread inside the while True loop (lines 102-218)
LoopPcs == {"wait", "clear", "rec_test", "rec_chunk", "check", "gate",
            "transcribe", "transcribe_blocked", "blank", "agent_call",
            "agent_blocked", "speak", "speak_blocked"}

-----------------------------------------------------------------------------
(* Initial states *)

BridgeIdle ==
    /\ messages = << >>
    /\ node = "idle"
    /\ bridge_result = NotRun
    /\ llm_input = << >>
    /\ visited = << >>

MainStart ==
    /\ pc = "start"
    /\ exit_code = << >>
    /\ agent = FALSE
    /\ tts = FALSE
    /\ stt = "None"
    /\ enable_stt = FALSE
    /\ stt_exc = "none"
    /\ warned = FALSE
    /\ listener = "None"
    /\ is_ptt_pressed = FALSE
    /\ audio_chunks = << >>
    /\ audio_data = << >>
    /\ user_input = Unbound
    /\ lpc = "idle"
    /\ presses = 0
    /\ recHold = 0
    /\ recEnd = "none"
    /\ recorded = << >>
    /\ fail = "none"
    /\ inFlight = 0
    /\ remote = {}
    /\ called = {}
    /\ interrupted = FALSE
    /\ sr_bound = FALSE
    /\ crashed_at = "none"

Init ==
    /\ env \in Envs
    /\ MainStart
    /\ BridgeIdle

-----------------------------------------------------------------------------
(* Start-up of main(), lines 19-99 *)

\* lines 24-29: the API key check
CheckApiKey ==
    /\ pc = "start"
    /\ IF ApiKeyMissing(env.api_key)
       THEN /\ pc' = "exited"
            /\ exit_code' = << EXIT_FAILURE >>
       ELSE /\ pc' = "create_agent"
            /\ UNCHANGED exit_code
    /\ UNCHANGED << env, agent, tts, stt, enable_stt, stt_exc, warned, listener,
                    is_ptt_pressed, audio_chunks, audio_data, user_input, lpc,
                    presses, recHold, recEnd, recorded, fail, inFlight, remote, called,
                    interrupted >>
    /\ UNCHANGED << sr_bound, crashed_at >>
    /\ UNCHANGED bridgeVars

\* lines 31-37: feature flags, then agent = GameAgent(api_key=api_key)
CreateAgent ==
    /\ pc = "create_agent"
    /\ enable_stt' = (Lower(Getenv(env.ENABLE_STT, "false")) = "true")
    /\ agent' = TRUE
    /\ pc' = "create_tts"
    /\ UNCHANGED << env, exit_code, tts, stt, stt_exc, warned, listener,
                    is_ptt_pressed, audio_chunks, audio_data, user_input, lpc,
                    presses, recHold, recEnd, recorded, fail, inFlight, remote, called,
                    interrupted >>
    /\ UNCHANGED << sr_bound, crashed_at >>
    /\ UNCHANGED bridgeVars

\* line 32: enable_tts
enable_tts == Lower(Getenv(env.ENABLE_TTS, "true")) = "true"

\* lines 39-40: tts = TextToSpeech() if enable_tts else None.  The
\* constructor runs Path("audio_output").mkdir(exist_ok=True) (tts.py:26),
\* which can raise OSError; no handler covers line 40.
CreateTTS ==
    /\ pc = "create_tts"
    /\ \/ /\ tts' = enable_tts
          /\ pc' = "create_stt"
          /\ UNCHANGED crashed_at
       \/ /\ enable_tts
          /\ pc' = "crashed"
          /\ crashed_at' = "create_tts"
          /\ UNCHANGED tts
    /\ UNCHANGED << env, exit_code, agent, stt, enable_stt, stt_exc, warned,
                    listener, is_ptt_pressed, audio_chunks, audio_data,
                    user_input, lpc, presses, recHold, recEnd, recorded, fail,
                    inFlight, remote, called, interrupted, sr_bound >>
    /\ UNCHANGED bridgeVars

\* What `from .stt import SpeechToText as STT; stt = STT()` can do.
\* stt.py imports sounddevice at its top, which raises OSError when the
\* PortAudio library is missing.  With PortAudio present STT() returns an
\* object or raises (OSError from mkdir or the model download, or another
\* exception).  "Whisper" is the class of stt.py, which sets sample_rate but
\* neither device_index nor recognizer; "Recognizer" is an object that also
\* provides the device_index and recognizer attributes main() reads.
SttOutcomes(portaudio) ==
    IF portaudio THEN {"Whisper", "Recognizer", "OSError", "other"} ELSE {"OSError"}

\* lines 42-55: create STT if enabled; OSError disables the feature
CreateSTT ==
    /\ pc = "create_stt"
    /\ IF enable_stt
       THEN \E o \in SttOutcomes(env.portaudio) :
              CASE o = "OSError" ->
                     /\ stt_exc' = "OSError"
                     /\ warned' = TRUE
                     /\ enable_stt' = FALSE
                     /\ pc' = "start_listener"
                     /\ UNCHANGED << stt, crashed_at >>
                [] o = "other" ->
                     /\ stt_exc' = "other"
                     /\ pc' = "crashed"
                     /\ crashed_at' = "create_stt"
                     /\ UNCHANGED << stt, warned, enable_stt >>
                [] OTHER ->
                     /\ stt' = o
                     /\ pc' = "start_listener"
                     /\ UNCHANGED << stt_exc, warned, enable_stt, crashed_at >>
       ELSE /\ pc' = "start_listener"
            /\ UNCHANGED << stt, stt_exc, warned, enable_stt, crashed_at >>
    /\ UNCHANGED << env, exit_code, agent, tts, listener, is_ptt_pressed,
                    audio_chunks, audio_data, user_input, lpc, presses, recHold,
                    recEnd, recorded, fail, inFlight, remote, called, interrupted,
                    sr_bound >>
    /\ UNCHANGED bridgeVars

\* lines 80-84 without the test of enable_stt
ListenerAfterStart_Always(enabled) == "running"
\* lines 80-84: listener = None; if enable_stt: listener = Listener(...);
\* listener.start()
ListenerAfterStart(enabled) == IF enabled THEN "running" ELSE "None"

\* lines 57-84: push-to-talk state, callbacks, listener.start() if enable_stt
StartListener ==
    /\ pc = "start_listener"
    /\ listener' = ListenerAfterStart(enable_stt)
    /\ pc' = "import_audio"
    /\ UNCHANGED << env, exit_code, agent, tts, stt, enable_stt, stt_exc, warned,
                    is_ptt_pressed, audio_chunks, audio_data, user_input, lpc,
                    presses, recHold, recEnd, recorded, fail, inFlight, remote, called,
                    interrupted >>
    /\ UNCHANGED << sr_bound, crashed_at >>
    /\ UNCHANGED bridgeVars

\* lines 86-99: banner, then `import sounddevice as sd` outside any try;
\* the import raises OSError when the PortAudio library is missing
ImportAudio ==
    /\ pc = "import_audio"
    /\ pc' = IF env.portaudio THEN "wait" ELSE "crashed"
    /\ crashed_at' = IF env.portaudio THEN crashed_at ELSE "import_audio"
    /\ UNCHANGED << env, exit_code, agent, tts, stt, enable_stt, stt_exc, warned,
                    listener, is_ptt_pressed, audio_chunks, audio_data,
                    user_input, lpc, presses, recHold, recEnd, recorded, fail,
                    inFlight, remote, called, interrupted, sr_bound >>
    /\ UNCHANGED bridgeVars

-----------------------------------------------------------------------------
(* The keyboard listener thread: on_press and on_release, lines 61-78 *)

\* what main() fixes before the loop starts
setupVars == << env, exit_code, agent, tts, stt, enable_stt, stt_exc, warned >>
\* what only the main thread changes inside the loop
turnVars == << audio_data, user_input, recHold, recEnd, recorded, fail,
               inFlight, remote, called, interrupted >>

\* ptt_key = os.getenv("PTT_KEY", "m").lower()
ptt_key == Lower(Getenv(env.PTT_KEY, "m"))
\* keys the listener can report: two character keys and one special key
Keys == {"m", "x", "<shift>"}
\* hasattr(key, 'char') and key.char == ptt_key
IsPttKey(key) == key # "<shift>" /\ key = ptt_key

\* on_press as a hotkey handler that itself calls agent.run
OnPressSet_RunsAgent(key) ==
    /\ listener = "running"
    /\ lpc = "idle"
    /\ IsPttKey(key)
    /\ ~is_ptt_pressed
    /\ presses < MaxPresses
    /\ is_ptt_pressed' = TRUE
    /\ presses' = presses + 1
    /\ inFlight' = inFlight + 1
    /\ lpc' = "press_clear"
    /\ UNCHANGED << setupVars, pc, listener, audio_chunks, audio_data, user_input,
                    recHold, recEnd, recorded, fail, remote, called, interrupted >>
    /\ UNCHANGED << sr_bound, crashed_at >>
    /\ UNCHANGED bridgeVars

\* on_press, lines 64-65: the guard and is_ptt_pressed["value"] = True
OnPressSet(key) ==
    /\ listener = "running"
    /\ lpc = "idle"
    /\ IsPttKey(key)
    /\ ~is_ptt_pressed
    /\ presses < MaxPresses
    /\ is_ptt_pressed' = TRUE
    /\ presses' = presses + 1
    /\ lpc' = "press_clear"
    /\ UNCHANGED << setupVars, turnVars, pc, listener, audio_chunks >>
    /\ UNCHANGED << sr_bound, crashed_at >>
    /\ UNCHANGED bridgeVars

\* on_press, lines 66-67: audio_chunks.clear(), a separate step of the
\* listener thread that the main thread can run before or after
OnPressClear ==
    /\ lpc = "press_clear"
    /\ audio_chunks' = << >>
    /\ lpc' = "idle"
    /\ UNCHANGED << setupVars, turnVars, pc, listener, is_ptt_pressed, presses >>
    /\ UNCHANGED << sr_bound, crashed_at >>
    /\ UNCHANGED bridgeVars

\* on_release, lines 74-76
OnRelease(key) ==
    /\ listener = "running"
    /\ lpc = "idle"
    /\ IsPttKey(key)
    /\ is_ptt_pressed
    /\ is_ptt_pressed' = FALSE
    /\ UNCHANGED << setupVars, turnVars, pc, listener, audio_chunks, lpc, presses >>
    /\ UNCHANGED << sr_bound, crashed_at >>
    /\ UNCHANGED bridgeVars

-----------------------------------------------------------------------------
(* The interactive loop of main(), lines 102-218 *)

\* the handlers written with break instead of continue
AfterFailure_Break(kind) == "done"

\* every failure handler of the loop prints and goes back to the top of
\* `while True` (continue at lines 132, 147, 170, 174, 179; the end of the
\* loop body after lines 200, 207 and 218)
AfterFailure(kind) == "wait"

\* lines 104-106: while not is_ptt_pressed["value"]: time.sleep(0.05).
\* Nothing is assigned; the ghosts of the turn start afresh.
Wait ==
    /\ pc = "wait"
    /\ is_ptt_pressed
    /\ pc' = "clear"
    /\ recHold' = presses
    /\ fail' = "none"
    /\ recEnd' = "none"
    /\ recorded' = << >>
    /\ called' = {}
    /\ UNCHANGED << setupVars, listener, is_ptt_pressed, audio_chunks, audio_data,
                    user_input, lpc, presses, inFlight, remote, interrupted >>
    /\ UNCHANGED << sr_bound, crashed_at >>
    /\ UNCHANGED bridgeVars

\* lines 109-111: audio_chunks.clear(); samples_per_chunk reads
\* stt.sample_rate (AttributeError on None, caught at line 214)
Clear ==
    /\ pc = "clear"
    /\ audio_chunks' = << >>
    /\ IF stt = "None"
       THEN /\ fail' = "loop_error"
            /\ pc' = AfterFailure("loop_error")
       ELSE /\ pc' = "rec_test"
            /\ UNCHANGED fail
    /\ UNCHANGED << setupVars, listener, is_ptt_pressed, audio_data, user_input,
                    lpc, presses, recHold, recEnd, recorded, inFlight,
                    remote, called, interrupted >>
    /\ UNCHANGED << sr_bound, crashed_at >>
    /\ UNCHANGED bridgeVars

\* line 113: while is_ptt_pressed["value"]:
RecTest ==
    /\ pc = "rec_test"
    /\ IF is_ptt_pressed
       THEN /\ pc' = "rec_chunk"
            /\ UNCHANGED recEnd
       ELSE /\ pc' = "check"
            /\ recEnd' = IF presses = recHold THEN "release" ELSE "later_release"
    /\ UNCHANGED << setupVars, listener, is_ptt_pressed, audio_chunks, audio_data,
                    user_input, lpc, presses, recHold, recorded,
                    fail, inFlight, remote, called, interrupted >>
    /\ UNCHANGED << sr_bound, crashed_at >>
    /\ UNCHANGED bridgeVars

\* lines 114-126: chunk = sd.rec(..., device=stt.device_index, blocking=True);
\* audio_chunks.append(chunk); any exception prints and breaks.  Reading
\* stt.device_index raises AttributeError on the class of stt.py.
RecChunk ==
    /\ pc = "rec_chunk"
    /\ \/ /\ stt = "Recognizer"
          /\ Len(recorded) < MaxChunks
          /\ \E chunk \in RecChunks :
                /\ audio_chunks' = Append(audio_chunks, chunk)
                /\ recorded' = Append(recorded, chunk)
          /\ pc' = "rec_test"
          /\ UNCHANGED << fail, recEnd >>
       \/ /\ fail' = "chunk_error"
          /\ recEnd' = "error"
          /\ pc' = "check"
          /\ UNCHANGED << audio_chunks, recorded >>
    /\ UNCHANGED << setupVars, listener, is_ptt_pressed, audio_data, user_input,
                    lpc, presses, recHold, inFlight,
                    remote, called, interrupted >>
    /\ UNCHANGED << sr_bound, crashed_at >>
    /\ UNCHANGED bridgeVars

\* lines 129-132: if not audio_chunks: ... continue.  (The ghost recorded
\* is forgotten where a turn stops using the recording.)
Check ==
    /\ pc = "check"
    /\ IF audio_chunks = << >>
       THEN /\ fail' = "no_audio"
            /\ pc' = AfterFailure("no_audio")
            /\ recorded' = << >>
       ELSE /\ pc' = "gate"
            /\ UNCHANGED << fail, recorded >>
    /\ UNCHANGED << setupVars, listener, is_ptt_pressed, audio_chunks, audio_data,
                    user_input, lpc, presses, recHold, recEnd,
                    inFlight, remote, called, interrupted >>
    /\ UNCHANGED << sr_bound, crashed_at >>
    /\ UNCHANGED bridgeVars

\* lines 135-149: the imports of lines 136-138 bind sr; then
\* audio_data = np.concatenate(audio_chunks, axis=0), which raises
\* ValueError on an empty list (caught at line 171); then the amplitude
\* check
Gate ==
    /\ pc = "gate"
    /\ sr_bound' = TRUE
    /\ IF audio_chunks = << >>
       THEN /\ fail' = "process_error"
            /\ pc' = AfterFailure("process_error")
            /\ recorded' = << >>
            /\ UNCHANGED audio_data
       ELSE /\ audio_data' = Concatenate(audio_chunks)
            /\ IF GateRejects(audio_data')
               THEN /\ fail' = "silence"
                    /\ pc' = AfterFailure("silence")
                    /\ recorded' = << >>
               ELSE /\ pc' = "transcribe"
                    /\ UNCHANGED << fail, recorded >>
    /\ UNCHANGED << setupVars, listener, is_ptt_pressed, audio_chunks, user_input,
                    lpc, presses, recHold, recEnd,
                    inFlight, remote, called, interrupted, crashed_at >>
    /\ UNCHANGED bridgeVars

\* lines 151-164: WAV encoding and stt.recognizer.record, then the request
\* of recognize_google goes out and the main thread blocks.  Reading
\* stt.recognizer raises AttributeError on the class of stt.py, before any
\* request is sent (caught at line 171).
Transcribe ==
    /\ pc = "transcribe"
    /\ IF stt = "Recognizer"
       THEN /\ remote' = remote \cup {"transcription"}
            /\ called' = called \cup {"transcription"}
            /\ pc' = "transcribe_blocked"
            /\ UNCHANGED fail
       ELSE /\ fail' = "transcribe_error"
            /\ pc' = AfterFailure("transcribe_error")
            /\ UNCHANGED << remote, called >>
    /\ recorded' = << >>
    /\ UNCHANGED << setupVars, listener, is_ptt_pressed, audio_chunks, audio_data,
                    user_input, lpc, presses, recHold, recEnd,
                    inFlight, interrupted >>
    /\ UNCHANGED << sr_bound, crashed_at >>
    /\ UNCHANGED bridgeVars

\* lines 164-174: recognize_google returns the text, or raises
\* UnknownValueError (line 167) or another exception (line 171)
TranscribeReturn ==
    /\ pc = "transcribe_blocked"
    /\ \/ \E text \in Texts :
            /\ user_input' = text
            /\ pc' = "blank"
            /\ UNCHANGED fail
       \/ /\ fail' = "unknown_value"
          /\ pc' = AfterFailure("unknown_value")
          /\ UNCHANGED user_input
       \/ /\ fail' = "transcribe_error"
          /\ pc' = AfterFailure("transcribe_error")
          /\ UNCHANGED user_input
    /\ UNCHANGED << setupVars, listener, is_ptt_pressed, audio_chunks, audio_data,
                    lpc, presses, recHold, recEnd, recorded,
                    inFlight, remote, called, interrupted >>
    /\ UNCHANGED << sr_bound, crashed_at >>
    /\ UNCHANGED bridgeVars

\* lines 176-179: if not user_input or not user_input.strip(): ... continue
Blank ==
    /\ pc = "blank"
    /\ IF Strip(user_input) = ""
       THEN /\ fail' = "blank"
            /\ pc' = AfterFailure("blank")
       ELSE /\ pc' = "agent_call"
            /\ UNCHANGED fail
    /\ UNCHANGED << setupVars, listener, is_ptt_pressed, audio_chunks, audio_data,
                    user_input, lpc, presses, recHold, recEnd, recorded,
                    inFlight, remote, called, interrupted >>
    /\ UNCHANGED << sr_bound, crashed_at >>
    /\ UNCHANGED bridgeVars

\* lines 182-184: result = agent.run(user_input), the request goes out and
\* the main thread blocks
AgentCall ==
    /\ pc = "agent_call"
    /\ inFlight' = inFlight + 1
    /\ remote' = remote \cup {"model"}
    /\ called' = called \cup {"model"}
    /\ pc' = "agent_blocked"
    /\ UNCHANGED << setupVars, listener, is_ptt_pressed, audio_chunks, audio_data,
                    user_input, lpc, presses, recHold, recEnd,
                    recorded, fail, interrupted >>
    /\ UNCHANGED << sr_bound, crashed_at >>
    /\ UNCHANGED bridgeVars

\* lines 184-207: agent.run returns a final state whose last message has
\* str or list content, or raises (caught at line 204)
AgentReturn ==
    /\ pc = "agent_blocked"
    /\ inFlight' = inFlight - 1
    /\ \E outcome \in {"str", "list", "error"} :
         IF outcome = "error"
         THEN /\ fail' = "agent_error"
              /\ pc' = AfterFailure("agent_error")
         ELSE /\ pc' = IF tts /\ outcome = "str" THEN "speak" ELSE "wait"
              /\ UNCHANGED fail
    /\ UNCHANGED << setupVars, listener, is_ptt_pressed, audio_chunks, audio_data,
                    user_input, lpc, presses, recHold, recEnd, recorded,
                    remote, called, interrupted >>
    /\ UNCHANGED << sr_bound, crashed_at >>
    /\ UNCHANGED bridgeVars

\* lines 195-198: tts.speak(response_text, play=True): the synthesis
\* request goes out and the main thread blocks until the audio was played
Speak ==
    /\ pc = "speak"
    /\ remote' = remote \cup {"synthesis"}
    /\ called' = called \cup {"synthesis"}
    /\ pc' = "speak_blocked"
    /\ UNCHANGED << setupVars, listener, is_ptt_pressed, audio_chunks, audio_data,
                    user_input, lpc, presses, recHold, recEnd,
                    recorded, fail, inFlight, interrupted >>
    /\ UNCHANGED << sr_bound, crashed_at >>
    /\ UNCHANGED bridgeVars

\* lines 198-202: tts.speak returns, or raises; the exception is printed
\* (line 200) and the turn ends like a successful one
SpeakReturn ==
    /\ pc = "speak_blocked"
    /\ \/ /\ pc' = "wait"
          /\ UNCHANGED fail
       \/ /\ fail' = "tts_error"
          /\ pc' = AfterFailure("tts_error")
    /\ UNCHANGED << setupVars, listener, is_ptt_pressed, audio_chunks, audio_data,
                    user_input, lpc, presses, recHold, recEnd,
                    recorded, inFlight, remote, called, interrupted >>
    /\ UNCHANGED << sr_bound, crashed_at >>
    /\ UNCHANGED bridgeVars

\* line 209: a KeyboardInterrupt raised inside the try of line 103 reaches
\* the handler.  It can be raised after a part of the interrupted statements
\* took effect: at pc = "gate" before the imports of lines 136-138, after
\* them (sr is bound), or after line 140 assigned audio_data.  Everywhere
\* else a part that took effect is a whole step of the model.  (During the
\* imports of the first recording that gets there the interrupt does not
\* reach the handler: see InterruptSwallowed.)
Interrupt ==
    /\ pc \in LoopPcs
    /\ pc' = "goodbye"
    /\ interrupted' = TRUE
    /\ inFlight' = 0
    /\ IF pc = "gate"
       THEN \E bound \in {sr_bound, TRUE} :
               /\ sr_bound' = bound
               /\ audio_data' \in
                     {audio_data} \cup
                     (IF bound /\ audio_chunks # << >>
                      THEN {Concatenate(audio_chunks)} ELSE {})
       ELSE UNCHANGED << sr_bound, audio_data >>
    /\ UNCHANGED << setupVars, listener, is_ptt_pressed, audio_chunks,
                    user_input, lpc, presses, recHold, recEnd, recorded,
                    fail, remote, called, crashed_at >>
    /\ UNCHANGED bridgeVars

\* lines 210-213: print("Goodbye!"); if listener: listener.stop(); break,
\* and main() returns
Goodbye ==
    /\ pc = "goodbye"
    /\ listener' = IF listener = "running" THEN "stopped" ELSE listener
    /\ pc' = "done"
    /\ UNCHANGED << setupVars, is_ptt_pressed, audio_chunks, lpc, presses >>
    /\ UNCHANGED turnVars
    /\ UNCHANGED << sr_bound, crashed_at >>
    /\ UNCHANGED bridgeVars

\* A KeyboardInterrupt raised during the imports of lines 136-138 while sr is
\* still unbound: evaluating `except sr.UnknownValueError` (line 167) raises
\* UnboundLocalError, which `except Exception` of line 214 catches; the
\* traceback is printed and the loop goes on.
InterruptSwallowed ==
    /\ pc = "gate"
    /\ ~sr_bound
    /\ fail' = "loop_error"
    /\ pc' = AfterFailure("loop_error")
    /\ recorded' = << >>
    /\ UNCHANGED << setupVars, listener, is_ptt_pressed, audio_chunks, audio_data,
                    user_input, lpc, presses, recHold, recEnd, inFlight, remote,
                    called, interrupted >>
    /\ UNCHANGED << sr_bound, crashed_at >>
    /\ UNCHANGED bridgeVars

\* positions of main() before the loop, lines 19-99
StartupPcs == {"start", "create_agent", "create_tts", "create_stt",
               "start_listener", "import_audio"}

\* KeyboardInterrupt raised where no handler covers it: anywhere in the
\* start-up (lines 19-99), at the jump back to line 102 after a turn (the
\* `continue` of lines 132, 147, 170, 174, 179 and the end of the loop body
\* lie outside the try of line 103; the handler of lines 214-218 too), or
\* inside the handler of lines 210-213.  The exception leaves main().  It can
\* be raised after a part of the interrupted statements took effect:
\*   lines 33-37   enable_stt is assigned, GameAgent() has not returned;
\*   lines 49-54   the OSError of STT() is caught and the warning is being
\*                 printed, enable_stt is not yet cleared;
\*   lines 83-84   listener.start() has started the thread;
\*   line 212      listener.stop() has stopped it, before the break.
InterruptUncaught ==
    /\ \/ /\ pc \in StartupPcs
          /\ UNCHANGED << enable_stt, stt_exc, warned, listener >>
       \/ /\ pc = "create_agent"
          /\ enable_stt' = (Lower(Getenv(env.ENABLE_STT, "false")) = "true")
          /\ UNCHANGED << stt_exc, warned, listener >>
       \/ /\ pc = "create_stt"
          /\ enable_stt
          /\ "OSError" \in SttOutcomes(env.portaudio)
          /\ stt_exc' = "OSError"
          /\ warned' \in BOOLEAN
          /\ UNCHANGED << enable_stt, listener >>
       \/ /\ pc = "start_listener"
          /\ listener' = ListenerAfterStart(enable_stt)
          /\ UNCHANGED << enable_stt, stt_exc, warned >>
       \/ /\ pc = "wait"
          /\ recHold # 0
          /\ UNCHANGED << enable_stt, stt_exc, warned, listener >>
       \/ /\ pc = "goodbye"
          /\ listener' \in {listener, IF listener = "running" THEN "stopped" ELSE listener}
          /\ UNCHANGED << enable_stt, stt_exc, warned >>
    /\ pc' = "crashed"
    /\ crashed_at' = pc
    /\ interrupted' = TRUE
    /\ UNCHANGED << env, exit_code, agent, tts, stt, is_ptt_pressed, audio_chunks,
                    audio_data, user_input, lpc, presses, recHold, recEnd,
                    recorded, fail, inFlight, remote, called, sr_bound >>
    /\ UNCHANGED bridgeVars

-----------------------------------------------------------------------------
(* Spec: main() with the listener thread *)

Next ==
    \/ CheckApiKey
    \/ CreateAgent
    \/ CreateTTS
    \/ CreateSTT
    \/ StartListener
    \/ ImportAudio
    \/ \E key \in Keys : OnPressSet(key)
    \/ OnPressClear
    \/ \E key \in Keys : OnRelease(key)
    \/ Wait
    \/ Clear
    \/ RecTest
    \/ RecChunk
    \/ Check
    \/ Gate
    \/ Transcribe
    \/ TranscribeReturn
    \/ Blank
    \/ AgentCall
    \/ AgentReturn
    \/ Speak
    \/ SpeakReturn
    \/ Interrupt
    \/ Goodbye
    \/ InterruptSwallowed
    \/ InterruptUncaught

Spec == Init /\ [][Next]_vars

-----------------------------------------------------------------------------
(* SpecGate: the amplitude check of lines 140-149 on bounded waveforms *)

\* a started main() with speech-to-text on and otherwise the default
\* environment, after one press of the key; stt is one of the objects STT()
\* can have returned
Started ==
    /\ env = [api_key |-> "sk-key", ENABLE_TTS |-> Unset, ENABLE_STT |-> "True",
              PTT_KEY |-> Unset, portaudio |-> TRUE]
    /\ exit_code = << >>
    /\ agent = TRUE
    /\ tts = TRUE
    /\ stt \in {"Whisper", "Recognizer"}
    /\ enable_stt = TRUE
    /\ stt_exc = "none"
    /\ warned = FALSE
    /\ listener = "running"
    /\ is_ptt_pressed = FALSE
    /\ lpc = "idle"
    /\ presses = 1
    /\ recHold = 1
    /\ recEnd = "release"
    /\ fail = "none"
    /\ interrupted = FALSE
    /\ crashed_at = "none"

GateSamples == {INT16_MIN, -THRESHOLD, 0, THRESHOLD - 1, THRESHOLD}
RECURSIVE SeqsUpTo(_, _)
\* the sequences over S of length 0..n
SeqsUpTo(S, n) ==
    IF n = 0 THEN {<< >>}
    ELSE LET shorter == SeqsUpTo(S, n - 1)
         IN  shorter \cup {Append(q, x) : q \in shorter, x \in S}

InitGate ==
    /\ Started
    /\ pc = "gate"
    /\ audio_chunks \in SeqsUpTo({<< x >> : x \in GateSamples}, GateMaxChunks) \ {<< >>}
    /\ recorded = audio_chunks
    /\ audio_data = << >>
    /\ user_input = Unbound
    /\ inFlight = 0
    /\ remote = {}
    /\ called = {}
    /\ sr_bound \in BOOLEAN
    /\ BridgeIdle

SpecGate == InitGate /\ [][Gate]_vars

-----------------------------------------------------------------------------
(* SpecBridge: _process_screenshot on bounded transcripts *)

ToolNames == {"take_screenshot", "Take_Region_Screenshot", "lookup"}
ToolContents ==
    { Content("str", "dict", "imgA"),      \* '{"path": ..., "base64": "imgA", ...}'
      Content("str", "dict", "imgB"),
      Content("str", "dict", NoImage),     \* '{"path": ...}'
      Content("str", "invalid", NoImage),  \* 'Error: ...', not JSON
      Content("str", "list", NoImage),     \* '[1, 2]', JSON but no mapping
      Content("obj", "dict", "imgA") }     \* a dict, not a str
BridgeMsgs ==
    { Msg("human", NameNone, Content("str", "invalid", NoImage)),
      Msg("ai", NameNone, Content("str", "invalid", NoImage)),
      Msg("plain", NameAbsent, Content("str", "invalid", NoImage)) }
    \cup { Msg("tool", n, c) : n \in ToolNames, c \in ToolContents }

\* a GameAgent made and used outside main(), as test_agent.py does: main()
\* has not run, its variables are as at its start
DirectCall ==
    /\ env = [api_key |-> "sk-key", ENABLE_TTS |-> Unset, ENABLE_STT |-> Unset,
              PTT_KEY |-> Unset, portaudio |-> TRUE]
    /\ MainStart

InitBridge ==
    /\ DirectCall
    /\ messages \in SeqsUpTo(BridgeMsgs, MaxMsgs)
    /\ node = "process_screenshot"
    /\ bridge_result = NotRun
    /\ llm_input = << >>
    /\ visited = << >>

\* the process_screenshot node: the returned messages are added to the
\* state by operator.add; an exception leaves the graph
ProcessScreenshot ==
    /\ node = "process_screenshot"
    /\ bridge_result' = ProcessScreenshotResult(messages)
    /\ IF bridge_result'.status = "ok"
       THEN /\ messages' = messages \o bridge_result'.new
            /\ node' = "agent"
       ELSE /\ node' = "raised"
            /\ UNCHANGED messages
    /\ visited' = Append(visited, "process_screenshot")
    /\ UNCHANGED llm_input
    /\ UNCHANGED mainVars

SpecBridge == InitBridge /\ [][ProcessScreenshot]_vars

-----------------------------------------------------------------------------
(* SpecGraph: one GameAgent.run, node by node *)

\* a message with plain text content
Text == Content("str", "invalid", NoImage)
SystemMessage == Msg("system", NameNone, Text)
HumanMessage == Msg("human", NameNone, Text)
\* the response of llm_with_tools.invoke: an AIMessage with its tool calls
\* (the names of the tools asked for, in order)
AIMessage(calls) == [Msg("ai", NameNone, Text) EXCEPT !.tool_calls = calls]
\* the tool calls of a response, over self.tools: none, one, or both tools
ToolCallLists ==
    { << >>, << "take_screenshot" >>, << "take_region_screenshot" >>,
      << "take_screenshot", "take_region_screenshot" >> }
Responses == {AIMessage(calls) : calls \in ToolCallLists}

\* the condition of line 86, turned into "only on the first call"
NeedsSystemMessage_FirstCallOnly(msgs) == Len(msgs) = 1
\* line 86: len(messages) == 1 or not any(isinstance(m, SystemMessage) ...)
NeedsSystemMessage(msgs) ==
    Len(msgs) = 1 \/ ~(\E i \in 1..Len(msgs) : msgs[i].type = "system")
\* lines 86-126: messages = [system_message] + messages
ModelInput(msgs) ==
    IF NeedsSystemMessage(msgs) THEN << SystemMessage >> \o msgs ELSE msgs

\* _should_continue(state)
ShouldContinue(msgs) ==
    IF msgs[Len(msgs)].tool_calls # << >> THEN "continue" ELSE "end"

\* what a tool call leaves in its ToolMessage: the JSON text of the dict the
\* tool returned, or the text of an error
ToolOutcomes ==
    {Content("str", "dict", b) : b \in Images} \cup {Content("str", "invalid", NoImage)}
\* ToolNode: one ToolMessage per tool call, named after the tool, in order
ToolResults(calls) ==
    { [i \in 1..Len(calls) |-> Msg("tool", calls[i], f[i])] :
        f \in [1..Len(calls) -> ToolOutcomes] }

\* the number of model responses with tool calls so far
Rounds == Cardinality({i \in 1..Len(messages) : messages[i].tool_calls # << >>})

\* GameAgent.run: the initial state, at the entry point of the graph
InitGraph ==
    /\ DirectCall
    /\ messages = << HumanMessage >>
    /\ node = "agent"
    /\ bridge_result = NotRun
    /\ llm_input = << >>
    /\ visited = << >>

\* the agent node and its conditional edge; an exception of the request
\* leaves the graph
CallModel ==
    /\ node = "agent"
    /\ llm_input' = ModelInput(messages)
    /\ visited' = Append(visited, "agent")
    /\ \/ \E response \in Responses :
             /\ (response.tool_calls # << >>) => (Rounds < MaxRounds)
             /\ messages' = Append(messages, response)
             /\ node' = IF ShouldContinue(messages') = "continue" THEN "tools" ELSE "end"
       \/ /\ node' = "raised"
          /\ UNCHANGED messages
    /\ UNCHANGED bridge_result
    /\ UNCHANGED mainVars

\* the tools node and its edge to process_screenshot
ToolsNode ==
    /\ node = "tools"
    /\ \E results \in ToolResults(messages[Len(messages)].tool_calls) :
          messages' = messages \o results
    /\ node' = "process_screenshot"
    /\ visited' = Append(visited, "tools")
    /\ UNCHANGED << bridge_result, llm_input >>
    /\ UNCHANGED mainVars

NextGraph == CallModel \/ ToolsNode \/ ProcessScreenshot

SpecGraph == InitGraph /\ [][NextGraph]_vars

-----------------------------------------------------------------------------
(* Claims about the screenshot bridge, checked under SpecBridge *)

\* a screenshot-tool message whose payload is a mapping with a 'base64' field
IsScreenshotTool(m) ==
    m.name \notin {NameAbsent, NameNone} /\ ContainsScreenshot(Lower(m.name))
HasImage(m) ==
    IsScreenshotTool(m) /\ m.content.kind = "dict" /\ m.content.base64 # NoImage
\* the transcript the bridge was called with
BridgeInput == SubSeq(messages, 1, Len(messages) - Len(bridge_result.new))
ImageIdx(msgs) == {i \in 1..Len(msgs) : HasImage(msgs[i])}
MostRecentImage(msgs) ==
    LET last == CHOOSE i \in ImageIdx(msgs) : \A j \in ImageIdx(msgs) : j <= i
    IN  msgs[last].content.base64

\* C1: whenever the transcript holds at least one screenshot-tool message
\* with a well-formed payload that has 'base64', the bridge returns exactly
\* one new message, an image message carrying the image of the most recent
\* such tool message.
C1_ExactlyOneMostRecentImage ==
    (bridge_result.status # "not run" /\ ImageIdx(BridgeInput) # {}) =>
        /\ bridge_result.status = "ok"
        /\ Len(bridge_result.new) = 1
        /\ IsImageMessage(bridge_result.new[1])
        /\ bridge_result.new[1].content.base64 = MostRecentImage(BridgeInput)

\* C2: whenever the transcript holds no screenshot-tool message, or only
\* screenshot-tool messages whose payload lacks 'base64' or is no mapping,
\* the bridge returns normally with zero new messages; in particular a
\* message whose name is unset never makes it raise.
C2_NoImageReturnsNothing ==
    (bridge_result.status # "not run" /\ ImageIdx(BridgeInput) = {}) =>
        /\ bridge_result.status = "ok"
        /\ bridge_result.new = << >>

-----------------------------------------------------------------------------
(* Claim about the amplitude gate, checked under SpecGate *)

\* C3: the gate rejects exactly the waveforms whose peak absolute sample
\* value is below 100, for all int16 samples, -32768 included.
C3_GateFollowsTruePeak ==
    (pc # "gate") => ((fail = "silence") <=> (TruePeak(audio_data) < THRESHOLD))

-----------------------------------------------------------------------------
(* Claims about main(), checked under Spec *)

\* C4: with OPENROUTER_API_KEY missing or empty, main() exits with code 1
\* at its first step (unless a keyboard interrupt ends it before that), and
\* in every case no agent is constructed, no listener is started and no
\* remote call is made.
C4_MissingKeyExitsFirst ==
    /\ (env.api_key \in {Unset, ""}) =>
           /\ ~agent
           /\ listener = "None"
           /\ remote = {}
           /\ inFlight = 0
           /\ pc \in {"start", "exited", "crashed"}
    /\ (env.api_key \in {Unset, ""} /\ pc # "start" /\ ~interrupted) =>
           /\ pc = "exited"
           /\ exit_code = << EXIT_FAILURE >>
    /\ (pc = "exited") => (env.api_key \in {Unset, ""})

\* C4 happens: main() has exited on an empty key
C4_Witness == pc = "exited" /\ env.api_key = "" /\ exit_code = << EXIT_FAILURE >>

QuitWords == {"quit", "exit", "q"}
TtsCommands == {"tts on", "tts off"}

\* C5: an input of quit, exit or q (any case) ends the loop and "tts on" /
\* "tts off" switch speech output without invoking the remote model, so
\* none of these inputs is ever handed to agent.run.
C5_CommandsNeverReachAgent ==
    (pc \in {"agent_call", "agent_blocked"}) =>
        (Lower(user_input) \notin QuitWords /\ Lower(user_input) \notin TtsCommands)

TurnFailures == {"loop_error", "no_audio", "process_error", "silence",
                 "unknown_value", "transcribe_error", "blank", "agent_error",
                 "tts_error"}

\* C6: a failure inside a turn never ends the main loop: the loop is left
\* only by a keyboard interrupt (caught at line 209 or not), main() ends
\* otherwise only before the loop, and after a failure the main thread is
\* back at the wait for the trigger (after a chunk recording error it is
\* still inside the loop body, on its way there).
C6_FailuresKeepLoopRunning ==
    /\ (pc \in {"goodbye", "done"}) => interrupted
    /\ (pc = "crashed" /\ ~interrupted) =>
            (crashed_at \in StartupPcs /\ fail = "none" /\ recHold = 0)
    /\ (fail \in TurnFailures /\ ~interrupted) => (pc = "wait")
    /\ (fail = "chunk_error" /\ ~interrupted) => (pc \in LoopPcs)

\* C6 happens: an earlier turn failed and a later key press has started a
\* new turn, which is recording.  (Transcription was called in an earlier
\* turn and the model never: that turn ended with unrecognized speech, a
\* transcription error or blank text; the recording now runs under the
\* second press.)
C6_Witness ==
    /\ pc = "rec_chunk"
    /\ fail = "none"
    /\ ~interrupted
    /\ recHold = 2
    /\ called = {}
    /\ remote = {"transcription"}

\* C7: at most one request to the remote model is in flight, and one is in
\* flight exactly while the main thread is blocked in agent.run; the
\* listener callbacks never start one.
C7_OneRequestInFlight ==
    /\ inFlight <= 1
    /\ (inFlight = 1) <=> (pc = "agent_blocked")

\* C7 happens: a press of the push-to-talk key was handled by the listener
\* while agent.run was blocked
C7_Witness ==
    pc = "agent_blocked" /\ inFlight = 1 /\ lpc = "press_clear" /\ is_ptt_pressed

\* C8: each recording is started by exactly one press and ended by the
\* release of that same press: a recording is left on the release of the
\* press it started under, and when the wait is about to fall through
\* again, the flag was set by another press than the one of the recording
\* before.
C8_OnePressOneRecording ==
    /\ (pc = "check") => (recEnd = "release")
    /\ (pc = "wait" /\ is_ptt_pressed /\ recHold # 0) => (presses # recHold)

\* C9: after a failed turn no new recording starts until a fresh key press:
\* when the main thread is back at the wait after a failed turn and the
\* flag is set, so that the next recording starts, a later press than the
\* one of the failed turn has set it.
C9_NoRetryWithoutFreshPress ==
    (pc = "wait" /\ fail \in (TurnFailures \cup {"chunk_error"}) \ {"tts_error"}
        /\ is_ptt_pressed)
        => (presses > recHold)

\* C10: when speech-to-text initialisation raises OSError, main() prints
\* the warning, disables speech-to-text, does not exit and goes on into the
\* interactive loop.
C10_SttOSErrorContinues ==
    (stt_exc = "OSError" /\ ~interrupted) =>
        (warned /\ ~enable_stt /\ pc \notin {"crashed", "exited"})

-----------------------------------------------------------------------------
(* The recorded waveform of a hold *)

\* C11: the waveform handed to transcription is the in-order concatenation
\* of exactly the chunks recorded during the hold the recording started
\* under: none of the chunks sd.rec returned in this recording is missing
\* from it, and the recording did not run on into a later hold.
C11_WaveformIsTheHoldsChunks ==
    (pc = "transcribe") =>
        /\ audio_data = Concatenate(recorded)
        /\ recEnd # "later_release"

-----------------------------------------------------------------------------
(* The order of a turn *)

\* C12: a turn goes idle -> recording -> (silence-rejected | transcribing) ->
\* idle.  Transcription is attempted only on the waveform of a recording
\* that produced a chunk and whose peak passed the gate of line 144; a
\* recording that was empty or rejected as silence is back at the wait
\* with no remote call made in its turn and no agent call in flight; the
\* agent is invoked only in a turn whose transcription returned non-blank
\* text.
C12_TurnOrder ==
    /\ (pc = "transcribe") => (recorded # << >>)
    /\ (pc = "transcribe" \/ "transcription" \in called) =>
            /\ audio_data # << >>
            /\ MaxVal(audio_data) >= THRESHOLD
    /\ (fail \in {"no_audio", "silence"} /\ pc \in LoopPcs) =>
            /\ pc = "wait"
            /\ called = {}
            /\ inFlight = 0
    /\ (pc \in {"agent_call", "agent_blocked"} \/ "model" \in called) =>
            /\ "transcription" \in called
            /\ user_input \in Texts
            /\ Strip(user_input) # ""
C12_Witness ==
    /\ pc = "agent_blocked"
    /\ recHold = 2
    /\ called = {"transcription", "model"}
    /\ Strip(user_input) # ""

-----------------------------------------------------------------------------
(* Which screenshot message the bridge uses, checked under SpecBridge *)

ScreenshotIdx(msgs) == {i \in 1..Len(msgs) : IsScreenshotTool(msgs[i])}
\* the most recent screenshot-tool message carries no image
LastScreenshotHasNoImage(msgs) ==
    /\ ScreenshotIdx(msgs) # {}
    /\ LET last == CHOOSE i \in ScreenshotIdx(msgs) :
                        \A j \in ScreenshotIdx(msgs) : j <= i
       IN  ~HasImage(msgs[last])

\* C13: when the most recent screenshot-tool message has a payload without
\* an image, no image message is appended, even if an older
\* screenshot-tool message carries a valid image.
C13_OnlyFirstScreenshotMessage ==
    (bridge_result.status # "not run" /\ LastScreenshotHasNoImage(BridgeInput)) =>
        bridge_result.new = << >>

-----------------------------------------------------------------------------
(* Claims about the agent graph, checked under SpecGraph *)

RunOver == node \in {"end", "raised"}
\* the node that must follow node n
After(n) ==
    CASE n = "agent" -> "tools"
      [] n = "tools" -> "process_screenshot"
      [] OTHER -> "agent"
IsPrefix(p, q) == Len(p) <= Len(q) /\ SubSeq(q, 1, Len(p)) = p

\* C14: a run starts at the model node; the nodes run in the order model,
\* tools, bridge, model, ..., and a model response with tool calls is
\* followed by all three, so a run is over only after a model node; the run
\* returns only with a model response without tool calls as last message;
\* what the model saw before is still the front of the transcript, and an
\* image message of the bridge is the last message when the model node
\* runs next.
C14_GraphOrder ==
    /\ (visited # << >>) => (visited[1] = "agent")
    /\ \A i \in 1..(Len(visited) - 1) : visited[i + 1] = After(visited[i])
    /\ RunOver => (visited # << >> /\ visited[Len(visited)] = "agent")
    /\ (node = "end") =>
            /\ messages[Len(messages)].type = "ai"
            /\ messages[Len(messages)].tool_calls = << >>
    /\ (llm_input # << >>) => IsPrefix(Tail(llm_input), messages)
    /\ (node = "agent" /\ bridge_result.new # << >>) =>
            messages[Len(messages)] = bridge_result.new[1]

\* C15: every list handed to the model begins with the system message and
\* holds no other one, in every round; the transcript never holds a system
\* message.
C15_OneSystemMessage ==
    /\ (llm_input # << >>) =>
            /\ llm_input[1] = SystemMessage
            /\ \A i \in 2..Len(llm_input) : llm_input[i].type # "system"
    /\ \A i \in 1..Len(messages) : messages[i].type # "system"
C15_Witness ==
    /\ node = "end"
    /\ Rounds >= 1
    /\ IsImageMessage(llm_input[Len(llm_input)])
    /\ llm_input[1] = SystemMessage

-----------------------------------------------------------------------------
(* The loop without a listener, checked under Spec *)

\* C16: when speech-to-text is off after start-up (ENABLE_STT not "true",
\* or SpeechToText() raised OSError), no listener is started and the flag
\* is never set: the main loop is at its wait, it has recorded nothing,
\* called no remote service and no agent, and it is left only by a
\* keyboard interrupt: main() ends otherwise only before the loop, by an
\* exception of the start-up.
C16_NoListenerNeverLeavesWait ==
    (~enable_stt /\ pc \in (LoopPcs \cup {"goodbye", "done", "crashed"})) =>
        /\ listener = "None"
        /\ ~is_ptt_pressed
        /\ presses = 0
        /\ pc \in {"wait", "goodbye", "done", "crashed"}
        /\ (pc \in {"goodbye", "done"}) => interrupted
        /\ (pc = "crashed") =>
                \/ crashed_at \in StartupPcs
                \/ crashed_at = "goodbye" /\ interrupted
        /\ recHold = 0
        /\ audio_chunks = << >>
        /\ remote = {}
        /\ inFlight = 0
C16_Witness ==
    /\ pc = "done"
    /\ interrupted
    /\ stt_exc = "OSError"
    /\ ~enable_stt
    /\ listener = "None"

====
